---- MODULE Spec2Model ----
(***************************************************************************)
(* A model of ControllerService (the device session, its command queue     *)
(* and dispatcher, and the switch of the transport to the XModem engine).  *)
(*                                                                         *)
(* JavaScript runs one task at a time: every action below is one task (an  *)
(* event callback, or the code of an async function between two awaits).   *)
(* A continuation of an await on a settled promise is a microtask and runs *)
(* before any other task: Microtask says when one is due, and every task   *)
(* is guarded by its absence.                                              *)
(***************************************************************************)
EXTENDS Integers, Sequences, FiniteSets, TLC

\* ------------------------------------------------------------------ bounds

\* user commands passed to send() in one behaviour
MaxCmds == 2
\* bytes in one chunk delivered by the transport
MaxChunk == 2
\* length of the partial line kept in the session's buffer
MaxBuf == 2
\* connect() calls in one behaviour
MaxConnects == 2
\* entries of statusListeners
MaxListeners == 2
\* readLine() polls of waitForWelcomeString before its 15 s window is over
WelcomeReads == 2
\* downloadFile / uploadFile calls in one behaviour
MaxXfers == 2
\* bytes fed to the Line Buffer in SpecLines
MaxInput == 4
\* commands passed to send() in SpecTransfer
MaxTransferCmds == 1
\* installRelease() calls in one behaviour
MaxInstalls == 3

\* ------------------------------------------------------- program constants

LF == 10
CR == 13
MAX_PING_COUNT == 10

\* the terminator line of a GetStatsCommand: "k"
Terminator == <<107>>

\* bytes the device sends: line feed, carriage return, "k"
Bytes == {LF, CR, 107}
\* bytes of SpecLines: ASCII, and the two bytes of U+00E9 (0xC3 0xA9)
WideBytes == {LF, CR, 97, 195, 169}

ChunksOf(B, n) == UNION {[1..k -> B] : k \in 1..n}

\* ControllerStatus
CONNECTION_LOST == "CONNECTION_LOST"
DISCONNECTED == "DISCONNECTED"
CONNECTING == "CONNECTING"
CONNECTED == "CONNECTED"
UNKNOWN_DEVICE == "UNKNOWN_DEVICE"

Listeners == {"l1", "l2"}

\* InstallerState
DOWNLOADING == "DOWNLOADING"
EXTRACTING == "EXTRACTING"
FLASHING == "FLASHING"
DONE == "DONE"
ERROR == "ERROR"

\* command slots: 1..MaxCmds are the caller's commands, in the order of their
\* send(); PingId is the PingCommand of the running ping(), StatsId the
\* GetStatsCommand of the running getStats() (each call makes a new object,
\* and the one before it has left the queue by then).
PingId == 0
StatsId == -1
UserIds == 1..MaxCmds
CmdIds == UserIds \cup {PingId, StatsId}

VARIABLES
    isOpen,          \* serialPort.isOpen()
    readers,         \* the transport's registered readers, in the order added
    nativeListeners, \* DISCONNECT listeners on the native port
    buffer,          \* ControllerService.buffer
    commands,        \* ControllerService.commands (command slots)
    xmodemMode,      \* ControllerService.xmodemMode
    status,          \* ControllerService.status
    currentVersion,  \* ControllerService.currentVersion
    statusListeners, \* ControllerService.statusListeners
    stats,           \* ControllerService.stats is set
    cmd,             \* per command: kind, timeoutMs, state, timer, promise
    nextId,          \* the next caller command
    resolved,        \* the commands whose promise resolved, in that order
    cpc,             \* where connect() stands
    reads,           \* polls done by waitForWelcomeString
    ppc,             \* where ping() / _detectController() stands
    pingCount,       \* _detectController's pingCount
    tpc,             \* where downloadFile() / uploadFile() stands
    conns,           \* connect() calls so far
    xfers,           \* transfer calls so far
    ev,              \* the last task: what ran, what it wrote, whom it called
    seen,            \* what the running connect() has seen and done
    delivered,       \* the last status given to the listeners
    input,           \* SpecLines: every byte fed so far
    emitted,         \* SpecLines: every line emitted so far
    ipc,             \* where installRelease() stands
    installs         \* per installRelease() call: the states given to onState
                     \* in their order, how its promise settled, and whether
                     \* flashDevice resolved

vars == <<isOpen, readers, nativeListeners, buffer, commands, xmodemMode,
          status, currentVersion, statusListeners, stats, cmd, nextId,
          resolved, cpc, reads, ppc, pingCount, tpc, conns, xfers, ev, seen,
          delivered, input, emitted, ipc, installs>>

sessionVars == <<isOpen, readers, nativeListeners, status, currentVersion,
                 statusListeners, stats>>
procVars == <<cpc, reads, ppc, pingCount, tpc, conns, xfers, seen>>
lineVars == <<input, emitted>>
installVars == <<ipc, installs>>
queueVars == <<buffer, commands, cmd, resolved>>

\* ----------------------------------------------------------------- helpers

Range(s) == {s[i] : i \in 1..Len(s)}

Last(s) == s[Len(s)]

\* Array.prototype.filter((x) => x !== e)
Without(s, e) == SelectSeq(s, LAMBDA x : x # e)

\* String.prototype.indexOf, 1-based; 0 when absent
IndexOf(s, c) ==
    IF \E i \in 1..Len(s) : s[i] = c
    THEN CHOOSE i \in 1..Len(s) : s[i] = c /\ \A j \in 1..(i - 1) : s[j] # c
    ELSE 0

\* a JavaScript string is truthy when it is neither undefined nor empty
Truthy(v) == v \notin {"unset", ""}

\* ev: the task that ran last (op), what it wrote to the transport (wrote),
\* the listener calls it made (calls) and, for a chunk from the transport,
\* whether it ended with a line feed and onData got it with the flag clear,
\* the queue empty and the buffer empty (chatter), and, for a task that ends a call, how the call
\* ended (result: "resolved", "rejected"); for disconnect(notify), notify
NoEv == [op |-> "init", wrote |-> <<>>, calls |-> <<>>, chatter |-> FALSE,
         result |-> "none", notify |-> FALSE]

NewCmd == [kind |-> "none", timeoutMs |-> 0, state |-> "NEW", timer |-> "none",
           promise |-> "none", got |-> FALSE, settles |-> 0]

\* ----------------------------------------------------------- the Line Buffer

\* Buffer.toString(): UTF-8 decoding of one chunk on its own. A byte that is
\* no character (a lead byte without its continuation byte, a continuation
\* byte without a lead byte) becomes U+FFFD. Bytes and WideBytes hold no lead
\* byte of a three- or four-byte character.
RECURSIVE toString(_)
toString(data) ==
    IF data = <<>> THEN <<>>
    ELSE IF Head(data) < 128 THEN <<Head(data)>> \o toString(Tail(data))
    ELSE IF /\ Head(data) \in 194..223
            /\ Len(data) >= 2
            /\ data[2] \in 128..191
         THEN <<(Head(data) - 192) * 64 + (data[2] - 128)>>
                  \o toString(Tail(Tail(data)))
    ELSE <<65533>> \o toString(Tail(data))

\* String.prototype.replace(/\r/g, "")
StripCR(str) == SelectSeq(str, LAMBDA c : c # CR)

\* ------------------------------------------------------------ the commands

\* PingCommand is done with any line, GetStatsCommand with its terminator
Completes(kind, line) ==
    IF kind = "PingCommand" THEN TRUE ELSE line = Terminator

\* a promise settles once: resolve and reject of a settled promise do nothing
Settle(c, how) ==
    [c EXCEPT !.promise = IF c.promise = "pending" THEN how ELSE c.promise,
              !.settles = IF c.settles < 2 THEN c.settles + 1 ELSE 2]

\* onDone without its clearTimeout
onDoneKeepsTimer(s, id) ==
    [s EXCEPT !.cmd[id] = Settle(s.cmd[id], "resolved"),
              !.resolved = IF s.cmd[id].promise = "pending"
                           THEN Append(s.resolved, id) ELSE s.resolved]

\* command.onDone, as send() sets it
onDone(s, id) ==
    [s EXCEPT !.cmd[id] = Settle([s.cmd[id] EXCEPT
                  !.timer = IF s.cmd[id].timer = "armed" THEN "cleared"
                            ELSE s.cmd[id].timer], "resolved"),
              !.resolved = IF s.cmd[id].promise = "pending"
                           THEN Append(s.resolved, id) ELSE s.resolved]

\* Command.appendLine: takes the line; a line that completes the command sets
\* its state DONE and calls onDone
appendLine(s, id, line) ==
    LET t == [s EXCEPT !.cmd[id].got = TRUE] IN
    IF Completes(s.cmd[id].kind, line)
    THEN onDone([t EXCEPT !.cmd[id].state = "DONE"], id)
    ELSE t

\* routeLine giving the line to the newest command
routeLineToLast(s, line) ==
    IF s.commands # <<>>
    THEN LET t == appendLine(s, Last(s.commands), line) IN
         IF t.cmd[Last(t.commands)].state = "DONE"
         THEN [t EXCEPT !.commands = SubSeq(t.commands, 1, Len(t.commands) - 1)]
         ELSE t
    ELSE s

\* routeLine by command identity: while a command that timed out has had no
\* line, the line counts as its late response and is dropped
routeLineDropsLate(s, line) ==
    IF \E id \in DOMAIN s.cmd : s.cmd[id].timer = "fired" /\ ~s.cmd[id].got
    THEN s
    ELSE IF s.commands # <<>>
    THEN LET t == appendLine(s, s.commands[1], line) IN
         IF t.cmd[t.commands[1]].state = "DONE"
         THEN [t EXCEPT !.commands = SubSeq(t.commands, 2, Len(t.commands))]
         ELSE t
    ELSE s

\* the body of the while loop of onData for one line
routeLine(s, line) ==
    IF s.commands # <<>>
    THEN LET t == appendLine(s, s.commands[1], line) IN
         IF t.cmd[t.commands[1]].state = "DONE"
         THEN [t EXCEPT !.commands = SubSeq(t.commands, 2, Len(t.commands))]
         ELSE t
    ELSE s

\* routeLines leaving the lines in the buffer while no command is pending
RECURSIVE routeLinesPending(_)
routeLinesPending(s) ==
    LET endLineIndex == IndexOf(s.buffer, LF) IN
    IF endLineIndex > 0 /\ s.commands # <<>>
    THEN LET line == SubSeq(s.buffer, 1, endLineIndex - 1)
             rest == SubSeq(s.buffer, endLineIndex + 1, Len(s.buffer))
         IN  routeLinesPending(routeLine([s EXCEPT !.buffer = rest,
                                                   !.lines = Append(s.lines, line)],
                                         line))
    ELSE s

\* the while loop of onData
RECURSIVE routeLines(_)
routeLines(s) ==
    LET endLineIndex == IndexOf(s.buffer, LF) IN
    IF endLineIndex > 0
    THEN LET line == SubSeq(s.buffer, 1, endLineIndex - 1)
             rest == SubSeq(s.buffer, endLineIndex + 1, Len(s.buffer))
         IN  routeLines(routeLine([s EXCEPT !.buffer = rest,
                                            !.lines = Append(s.lines, line)],
                                  line))
    ELSE s

\* onData without the check of xmodemMode
onDataAlways(s, data) ==
    routeLines([s EXCEPT !.buffer = s.buffer \o StripCR(toString(data))])

\* ControllerService.onData
onData(s, data) ==
    IF s.xmodemMode THEN s
    ELSE routeLines([s EXCEPT !.buffer = s.buffer \o StripCR(toString(data))])

\* _removeCommand dropping the head of the queue
_removeHead(q, command) == SubSeq(q, 2, Len(q))

\* ControllerService._removeCommand
_removeCommand(q, command) == Without(q, command)

\* the session as onData and send see it
Session == [xmodemMode |-> xmodemMode, buffer |-> buffer, commands |-> commands,
            cmd |-> cmd, resolved |-> resolved, lines |-> <<>>]

\* ControllerService.send: the command joins the queue, its timer is armed
\* when timeoutMs > 0, and its text is written
send(s, id, kind, timeoutMs) ==
    [s EXCEPT !.commands = Append(s.commands, id),
              !.resolved = Without(s.resolved, id),
              !.cmd[id] = [NewCmd EXCEPT !.kind = kind,
                                         !.timeoutMs = timeoutMs,
                                         !.state = "PENDING",
                                         !.timer = IF timeoutMs > 0 THEN "armed"
                                                   ELSE "none",
                                         !.promise = "pending"]]

\* the callback of the setTimeout of send
timedOut(s, id) ==
    [s EXCEPT !.commands = _removeCommand(s.commands, id),
              !.cmd[id] = Settle([s.cmd[id] EXCEPT !.timer = "fired"],
                                 "rejected")]

Put(s) ==
    /\ buffer' = s.buffer
    /\ commands' = s.commands
    /\ cmd' = s.cmd
    /\ resolved' = s.resolved

Settled(id) == cmd[id].promise \in {"resolved", "rejected"}

\* a continuation of ping() or getStats() is due
Microtask ==
    \/ ppc \in {"ping", "detect"} /\ Settled(PingId)
    \/ cpc = "stats" /\ Settled(StatsId)

Ev(op, wrote, calls) ==
    [NoEv EXCEPT !.op = op, !.wrote = wrote, !.calls = calls]

\* one write to the transport: who wrote, and what
W(by, text) == [by |-> by, text |-> text]

\* the readers of the transport
OnDataReader == [type |-> "onData", n |-> 0]
TempReader(n) == [type |-> "bufferedReader", n |-> n]
XModemReader(n) == [type |-> "XModemSocketAdapter", n |-> n]

\* ControllerService._notifyStatus: the listener calls it makes
_notifyStatus(st) == [i \in 1..Len(statusListeners) |-> <<statusListeners[i], st>>]

\* the last status given to the listeners after _notifyStatus(st)
Delivered(st) == IF statusListeners # <<>> THEN st ELSE delivered

NoTransfer == [dir |-> "none", at |-> "idle"]

NoSeen == [welcome |-> "none", ver0 |-> "unset", wroteI |-> FALSE,
           result |-> "none"]

Init ==
    /\ isOpen = FALSE
    /\ readers = <<>>
    /\ nativeListeners = 0
    /\ buffer = <<>>
    /\ commands = <<>>
    /\ xmodemMode = FALSE
    /\ status = DISCONNECTED
    /\ currentVersion = "unset"
    /\ statusListeners = <<>>
    /\ stats = FALSE
    /\ cmd = [id \in CmdIds |-> NewCmd]
    /\ nextId = 1
    /\ resolved = <<>>
    /\ cpc = "idle"
    /\ reads = 0
    /\ ppc = "idle"
    /\ pingCount = 0
    /\ tpc = NoTransfer
    /\ conns = 0
    /\ xfers = 0
    /\ ev = NoEv
    /\ seen = NoSeen
    /\ delivered = DISCONNECTED
    /\ input = <<>>
    /\ emitted = <<>>
    /\ ipc = "idle"
    /\ installs = <<>>

\* ------------------------------------------------------------ the dispatcher

\* a caller's send(command, timeoutMs)
Send(kind, timeoutMs) ==
    /\ ~Microtask
    /\ isOpen /\ cpc \in {"idle", "stats"}
    /\ nextId <= MaxCmds
    /\ Put(send(Session, nextId, kind, timeoutMs))
    /\ nextId' = nextId + 1
    /\ ev' = Ev("send", <<W("send", kind)>>, <<>>)
    /\ UNCHANGED <<sessionVars, procVars, lineVars, installVars, xmodemMode, delivered>>

\* the timer of a command fires
TimerFire(id) ==
    /\ ~Microtask
    /\ cmd[id].timer = "armed"
    /\ Put(timedOut(Session, id))
    /\ ev' = Ev("timer", <<>>, <<>>)
    /\ UNCHANGED <<sessionVars, procVars, lineVars, installVars, xmodemMode, nextId, delivered>>

\* the session after the readers rs, in their order, got the chunk
RECURSIVE feed(_, _, _)
feed(s, rs, data) ==
    IF rs = <<>> THEN s
    ELSE feed(IF Head(rs) = OnDataReader THEN onData(s, data) ELSE s,
              Tail(rs), data)

\* the transport delivers a chunk to its readers
Deliver(data) ==
    /\ ~Microtask
    /\ isOpen
    /\ LET s == feed(Session, readers, data) IN
       /\ Len(s.buffer) <= MaxBuf
       /\ Put(s)
       /\ ev' = [Ev("deliver", <<>>, <<>>) EXCEPT
                    !.chatter = /\ OnDataReader \in Range(readers)
                                /\ ~xmodemMode
                                /\ commands = <<>> /\ buffer = <<>>
                                /\ Last(data) = LF]
    /\ UNCHANGED <<sessionVars, procVars, lineVars, installVars, xmodemMode, nextId, delivered>>

\* --------------------------------------------------------------- connect()

\* String.prototype.startsWith
startsWith(str, p) == Len(str) >= Len(p) /\ SubSeq(str, 1, Len(p)) = p

\* String.prototype.indexOf of a string, 0-based; -1 when absent
indexOf(str, p) ==
    LET at == {i \in 0..(Len(str) - Len(p)) : SubSeq(str, i + 1, i + Len(p)) = p}
    IN  IF at = {} THEN -1 ELSE CHOOSE i \in at : \A j \in at : i <= j

GrblHAL == <<"G", "r", "b", "l", "H", "A", "L", " ">>
Grbl == <<"G", "r", "b", "l", " ">>
FluidNC == <<" ", "[", "F", "l", "u", "i", "d", "N", "C", " ", "v">>

\* ControllerService.isWelcomeString; a response that is undefined is <<>>
isWelcomeString(response) ==
    /\ response # <<>>
    /\ \/ startsWith(response, GrblHAL)
       \/ startsWith(response, Grbl)
       \/ indexOf(response, FluidNC) > 0

\* what readLine() gives waitForWelcomeString: nothing, "ok", "Grbl 1",
\* "GrblHAL 1", " [FluidNC v3" and "x [FluidNC v3"
Responses ==
    {<<>>, <<"o", "k">>, Grbl \o <<"1">>, GrblHAL \o <<"1">>,
     FluidNC \o <<"3">>, <<"x">> \o FluidNC \o <<"3">>}

\* getStats(), called last by connect(): it sends a GetStatsCommand when there
\* are no stats and the version is a non-empty string; connect() returns when
\* it is over
GetStats(sn, wrote) ==
    IF ~stats /\ Truthy(currentVersion)
    THEN /\ Put(send(Session, StatsId, "GetStatsCommand", 5000))
         /\ cpc' = "stats"
         /\ seen' = sn
         /\ ev' = Ev("connect", wrote \o <<W("send", "GetStatsCommand")>>, <<>>)
    ELSE /\ cpc' = "idle"
         /\ seen' = [sn EXCEPT !.result = "returned"]
         /\ ev' = Ev("connect", wrote, <<>>)
         /\ UNCHANGED queueVars

\* connect() is called
ConnectCall ==
    /\ ~Microtask
    /\ cpc = "idle" /\ ppc = "idle" /\ tpc.at = "idle"
    /\ conns < MaxConnects
    /\ conns' = conns + 1
    /\ IF ~isOpen
       THEN /\ cpc' = "open"
            /\ seen' = [NoSeen EXCEPT !.ver0 = currentVersion]
            /\ ev' = Ev("connect", <<>>, <<>>)
            /\ UNCHANGED queueVars
       ELSE GetStats([NoSeen EXCEPT !.ver0 = currentVersion], <<>>)
    /\ UNCHANGED <<sessionVars, lineVars, installVars, xmodemMode, nextId, reads, ppc,
                   pingCount, tpc, xfers, delivered>>

\* connect() throws: its finally has removed the temporary reader
Throws ==
    /\ cpc' = "idle"
    /\ seen' = [seen EXCEPT !.result = "threw"]
    /\ ev' = Ev("connect", <<>>, <<>>)

\* serialPort.open(115200) is over. When it opened the port, connect() adds
\* its DISCONNECT listener and the temporary reader and writes 0x0c 0x18.
OpenDone(opened, written) ==
    /\ ~Microtask
    /\ cpc = "open"
    /\ IF ~opened
       THEN /\ Throws
            /\ UNCHANGED <<isOpen, nativeListeners, readers, reads>>
       ELSE /\ isOpen' = TRUE
            /\ nativeListeners' = nativeListeners + 1
            /\ IF written
               THEN /\ readers' = Append(readers, TempReader(conns))
                    /\ cpc' = "welcome"
                    /\ reads' = 0
                    /\ ev' = Ev("connect", <<W("connect", "reset")>>, <<>>)
                    /\ UNCHANGED seen
               ELSE /\ Throws
                    /\ UNCHANGED <<readers, reads>>
    /\ UNCHANGED <<queueVars, lineVars, installVars, xmodemMode, status, currentVersion,
                   statusListeners, stats, nextId, ppc, pingCount, tpc, conns,
                   xfers, delivered>>

\* Connected leaving the status as it is
ConnectedKeepsStatus(sn) ==
    /\ readers' = Append(Without(readers, TempReader(conns)), OnDataReader)
    /\ status' = status
    /\ GetStats(sn, <<>>)

\* connect() after _initializeController: the temporary reader goes, the
\* status is CONNECTED, onData becomes a reader, getStats() is called
Connected(sn) ==
    /\ readers' = Append(Without(readers, TempReader(conns)), OnDataReader)
    /\ status' = CONNECTED
    /\ GetStats(sn, <<>>)

\* one readLine() of waitForWelcomeString
WelcomeRead(response) ==
    /\ ~Microtask
    /\ cpc = "welcome"
    /\ reads < WelcomeReads
    /\ IF isWelcomeString(response)
       THEN /\ cpc' = "settle1"
            /\ seen' = [seen EXCEPT !.welcome = "yes"]
            /\ reads' = 0
       ELSE /\ reads' = reads + 1
            /\ UNCHANGED <<cpc, seen>>
    /\ ev' = Ev("connect", <<>>, <<>>)
    /\ UNCHANGED <<sessionVars, queueVars, lineVars, installVars, xmodemMode, nextId, ppc,
                   pingCount, tpc, conns, xfers, delivered>>

\* the 15 s of waitForWelcomeString are over: no welcome string
WelcomeTimeout ==
    /\ ~Microtask
    /\ cpc = "welcome"
    /\ reads >= 1
    /\ reads' = 0
    /\ Connected([seen EXCEPT !.welcome = "no"])
    /\ UNCHANGED <<isOpen, nativeListeners, currentVersion, statusListeners,
                   stats, lineVars, installVars, xmodemMode, nextId, ppc, pingCount,
                   tpc, conns, xfers, delivered>>

\* one waitForLine() of waitForSettle: a line (and the loop goes on) or none.
\* After the first settle "\n" is written, after the second the handshake
\* is over.
SettleRead(gotLine, written) ==
    /\ ~Microtask
    /\ cpc \in {"settle1", "settle2"}
    /\ IF gotLine
       THEN /\ ev' = Ev("connect", <<>>, <<>>)
            /\ UNCHANGED <<cpc, seen, readers, status, queueVars>>
       ELSE IF cpc = "settle2"
       THEN Connected(seen)
       ELSE IF written
       THEN /\ cpc' = "clear"
            /\ ev' = Ev("connect", <<W("connect", "\n")>>, <<>>)
            /\ UNCHANGED <<seen, readers, status, queueVars>>
       ELSE /\ Throws
            /\ readers' = Without(readers, TempReader(conns))
            /\ UNCHANGED <<status, queueVars>>
    /\ UNCHANGED <<isOpen, nativeListeners, currentVersion, statusListeners,
                   stats, lineVars, installVars, xmodemMode, nextId, reads, ppc, pingCount,
                   tpc, conns, xfers, delivered>>

\* the waitForLine(2000) after "\n" is over: "$I\n" is written
ClearDone(written) ==
    /\ ~Microtask
    /\ cpc = "clear"
    /\ IF written
       THEN /\ cpc' = "version"
            /\ seen' = [seen EXCEPT !.wroteI = TRUE]
            /\ ev' = Ev("connect", <<W("connect", "$I")>>, <<>>)
            /\ UNCHANGED readers
       ELSE /\ Throws
            /\ readers' = Without(readers, TempReader(conns))
    /\ UNCHANGED <<isOpen, nativeListeners, status, currentVersion,
                   statusListeners, stats, queueVars, lineVars, installVars, xmodemMode,
                   nextId, reads, ppc, pingCount, tpc, conns, xfers, delivered>>

\* the waitForLine(2000) after "$I\n" is over: its line (empty after 2 s
\* without one) is the version
VersionDone(versionResponse) ==
    /\ ~Microtask
    /\ cpc = "version"
    /\ currentVersion' = versionResponse
    /\ cpc' = "settle2"
    /\ ev' = Ev("connect", <<>>, <<>>)
    /\ UNCHANGED <<isOpen, readers, nativeListeners, status, statusListeners,
                   stats, queueVars, lineVars, installVars, xmodemMode, nextId, reads, ppc,
                   pingCount, tpc, conns, xfers, seen, delivered>>

\* the send() of getStats() is over: connect() returns
StatsReturn ==
    /\ cpc = "stats"
    /\ Settled(StatsId)
    /\ stats' = (cmd[StatsId].promise = "resolved")
    /\ cpc' = "idle"
    /\ seen' = [seen EXCEPT !.result = "returned"]
    /\ ev' = Ev("connect", <<>>, <<>>)
    /\ UNCHANGED <<isOpen, readers, nativeListeners, status, currentVersion,
                   statusListeners, queueVars, lineVars, installVars, xmodemMode, nextId,
                   reads, ppc, pingCount, tpc, conns, xfers, delivered>>

\* ------------------------------------------------- disconnect and listeners

\* disconnect(notify) leaving onData registered
DisconnectKeepsReader(notify) ==
    /\ ~Microtask
    /\ isOpen /\ cpc = "idle" /\ ppc = "idle" /\ tpc.at = "idle"
    /\ readers' = readers
    /\ ev' = [Ev("disconnect", <<>>,
                 IF notify THEN _notifyStatus(DISCONNECTED) ELSE <<>>)
              EXCEPT !.notify = notify]
    /\ delivered' = IF notify THEN Delivered(DISCONNECTED) ELSE delivered
    /\ isOpen' = FALSE
    /\ UNCHANGED <<nativeListeners, status, currentVersion, statusListeners,
                   stats, queueVars, procVars, lineVars, installVars, xmodemMode, nextId>>

\* disconnect(notify)
Disconnect(notify) ==
    /\ ~Microtask
    /\ isOpen /\ cpc = "idle" /\ ppc = "idle" /\ tpc.at = "idle"
    /\ readers' = Without(readers, OnDataReader)
    /\ ev' = [Ev("disconnect", <<>>,
                 IF notify THEN _notifyStatus(DISCONNECTED) ELSE <<>>)
              EXCEPT !.notify = notify]
    /\ delivered' = IF notify THEN Delivered(DISCONNECTED) ELSE delivered
    /\ isOpen' = FALSE
    /\ UNCHANGED <<nativeListeners, status, currentVersion, statusListeners,
                   stats, queueVars, procVars, lineVars, installVars, xmodemMode, nextId>>

\* the calls of n DISCONNECT listeners, each one _notifyStatus(CONNECTION_LOST)
RECURSIVE lostCalls(_)
lostCalls(n) ==
    IF n = 0 THEN <<>> ELSE _notifyStatus(CONNECTION_LOST) \o lostCalls(n - 1)

\* the native port raises DISCONNECT: every listener connect() has added runs
DisconnectEvent ==
    /\ ~Microtask
    /\ nativeListeners > 0
    /\ ev' = Ev("DISCONNECT", <<>>, lostCalls(nativeListeners))
    /\ delivered' = Delivered(CONNECTION_LOST)
    /\ UNCHANGED <<sessionVars, queueVars, procVars, lineVars, installVars, xmodemMode,
                   nextId>>

\* addListener(listener)
AddListener(listener) ==
    /\ ~Microtask
    /\ Len(statusListeners) < MaxListeners
    /\ statusListeners' = Append(statusListeners, listener)
    /\ ev' = Ev("addListener", <<>>, <<>>)
    /\ UNCHANGED <<isOpen, readers, nativeListeners, status, currentVersion,
                   stats, queueVars, procVars, lineVars, installVars, xmodemMode, nextId,
                   delivered>>

\* removeListener(listener)
RemoveListener(listener) ==
    /\ ~Microtask
    /\ listener \in Range(statusListeners)
    /\ statusListeners' = Without(statusListeners, listener)
    /\ ev' = Ev("removeListener", <<>>, <<>>)
    /\ UNCHANGED <<isOpen, readers, nativeListeners, status, currentVersion,
                   stats, queueVars, procVars, lineVars, installVars, xmodemMode, nextId,
                   delivered>>

\* ------------------------------------------------ ping and _detectController

\* ping() is called: it sends a PingCommand with 1000 ms
PingCall ==
    /\ ~Microtask
    /\ isOpen /\ cpc = "idle" /\ ppc = "idle"
    /\ Put(send(Session, PingId, "PingCommand", 1000))
    /\ ppc' = "ping"
    /\ ev' = Ev("ping", <<W("send", "PingCommand")>>, <<>>)
    /\ UNCHANGED <<sessionVars, lineVars, installVars, xmodemMode, nextId, cpc, reads,
                   pingCount, tpc, conns, xfers, seen, delivered>>

\* PingReturn setting CONNECTED whatever the send() gave
PingReturnConnects ==
    /\ ppc = "ping"
    /\ Settled(PingId)
    /\ status' = CONNECTED
    /\ ppc' = "idle"
    /\ ev' = [Ev("ping", <<>>, <<>>) EXCEPT !.result = cmd[PingId].promise]
    /\ UNCHANGED <<isOpen, readers, nativeListeners, currentVersion,
                   statusListeners, stats, queueVars, lineVars, installVars, xmodemMode,
                   nextId, cpc, reads, pingCount, tpc, conns, xfers, seen,
                   delivered>>

\* the send() of ping() is over: CONNECTED when it resolved
PingReturn ==
    /\ ppc = "ping"
    /\ Settled(PingId)
    /\ status' = IF cmd[PingId].promise = "resolved" THEN CONNECTED ELSE status
    /\ ppc' = "idle"
    /\ ev' = [Ev("ping", <<>>, <<>>) EXCEPT !.result = cmd[PingId].promise]
    /\ UNCHANGED <<isOpen, readers, nativeListeners, currentVersion,
                   statusListeners, stats, queueVars, lineVars, installVars, xmodemMode,
                   nextId, cpc, reads, pingCount, tpc, conns, xfers, seen,
                   delivered>>

\* _detectController() is called: its first ping
DetectCall ==
    /\ ~Microtask
    /\ isOpen /\ cpc = "idle" /\ ppc = "idle"
    /\ pingCount' = 1
    /\ Put(send(Session, PingId, "PingCommand", 1000))
    /\ ppc' = "detect"
    /\ ev' = Ev("_detectController", <<W("send", "PingCommand")>>, <<>>)
    /\ UNCHANGED <<sessionVars, lineVars, installVars, xmodemMode, nextId, cpc, reads, tpc,
                   conns, xfers, seen, delivered>>

\* DetectReturn giving up one ping early
DetectReturnEarly ==
    /\ ppc = "detect"
    /\ Settled(PingId)
    /\ IF cmd[PingId].promise = "resolved"
       THEN /\ status' = CONNECTED
            /\ ppc' = "idle"
            /\ ev' = [Ev("_detectController", <<>>, <<>>) EXCEPT
                         !.result = "resolved"]
            /\ UNCHANGED <<pingCount, queueVars>>
       ELSE IF pingCount >= MAX_PING_COUNT - 1
       THEN /\ status' = UNKNOWN_DEVICE
            /\ ppc' = "idle"
            /\ ev' = [Ev("_detectController", <<>>, <<>>) EXCEPT
                         !.result = "rejected"]
            /\ UNCHANGED <<pingCount, queueVars>>
       ELSE /\ pingCount' = pingCount + 1
            /\ Put(send(Session, PingId, "PingCommand", 1000))
            /\ ev' = Ev("_detectController", <<W("send", "PingCommand")>>, <<>>)
            /\ UNCHANGED <<status, ppc>>
    /\ UNCHANGED <<isOpen, readers, nativeListeners, currentVersion,
                   statusListeners, stats, lineVars, installVars, xmodemMode, nextId, cpc,
                   reads, tpc, conns, xfers, seen, delivered>>

\* a ping() of _detectController() is over: it returns when the ping
\* resolved, gives up after MAX_PING_COUNT pings, and pings again otherwise
DetectReturn ==
    /\ ppc = "detect"
    /\ Settled(PingId)
    /\ IF cmd[PingId].promise = "resolved"
       THEN /\ status' = CONNECTED
            /\ ppc' = "idle"
            /\ ev' = [Ev("_detectController", <<>>, <<>>) EXCEPT
                         !.result = "resolved"]
            /\ UNCHANGED <<pingCount, queueVars>>
       ELSE IF pingCount >= MAX_PING_COUNT
       THEN /\ status' = UNKNOWN_DEVICE
            /\ ppc' = "idle"
            /\ ev' = [Ev("_detectController", <<>>, <<>>) EXCEPT
                         !.result = "rejected"]
            /\ UNCHANGED <<pingCount, queueVars>>
       ELSE /\ pingCount' = pingCount + 1
            /\ Put(send(Session, PingId, "PingCommand", 1000))
            /\ ev' = Ev("_detectController", <<W("send", "PingCommand")>>, <<>>)
            /\ UNCHANGED <<status, ppc>>
    /\ UNCHANGED <<isOpen, readers, nativeListeners, currentVersion,
                   statusListeners, stats, lineVars, installVars, xmodemMode, nextId, cpc,
                   reads, tpc, conns, xfers, seen, delivered>>

\* ------------------------------------------------ downloadFile / uploadFile

\* downloadFile(file) or uploadFile(file, fileData) is called: the flag is
\* set and "$X\r\n" written
TransferCall(dir) ==
    /\ ~Microtask
    /\ isOpen /\ cpc = "idle" /\ tpc.at = "idle"
    /\ xfers < MaxXfers
    /\ xfers' = xfers + 1
    /\ xmodemMode' = TRUE
    /\ tpc' = [dir |-> dir, at |-> "mode"]
    /\ ev' = Ev(dir, <<W(dir, "$X")>>, <<>>)
    /\ UNCHANGED <<sessionVars, queueVars, lineVars, installVars, nextId, cpc, reads, ppc,
                   pingCount, conns, seen, delivered>>

\* after 300 ms: "$Xmodem/Send=<file>" or "$Xmodem/Receive=<file>" is written
TransferRequest ==
    /\ ~Microtask
    /\ tpc.at = "mode"
    /\ tpc' = [tpc EXCEPT !.at = "request"]
    /\ ev' = Ev(tpc.dir, <<W(tpc.dir, IF tpc.dir = "downloadFile"
                                      THEN "$Xmodem/Send="
                                      ELSE "$Xmodem/Receive=")>>, <<>>)
    /\ UNCHANGED <<sessionVars, queueVars, lineVars, installVars, xmodemMode, nextId, cpc,
                   reads, ppc, pingCount, conns, xfers, seen, delivered>>

\* after 500 ms: the XModemSocketAdapter registers its reader and the engine
\* starts
TransferStart ==
    /\ ~Microtask
    /\ tpc.at = "request"
    /\ readers' = Append(readers, XModemReader(xfers))
    /\ tpc' = [tpc EXCEPT !.at = "xmodem"]
    /\ ev' = Ev(tpc.dir, <<>>, <<>>)
    /\ UNCHANGED <<isOpen, nativeListeners, status, currentVersion,
                   statusListeners, stats, queueVars, lineVars, installVars, xmodemMode,
                   nextId, cpc, reads, ppc, pingCount, conns, xfers, seen,
                   delivered>>

\* the engine writes a block or a control byte through the adapter
TransferWrite ==
    /\ ~Microtask
    /\ tpc.at = "xmodem"
    /\ isOpen
    /\ ev' = Ev(tpc.dir, <<W("XModem", "block")>>, <<>>)
    /\ UNCHANGED <<sessionVars, queueVars, procVars, lineVars, installVars, xmodemMode,
                   nextId, delivered>>

\* xmodem.receive() / xmodem.send() is over. When it resolved, the engine is
\* closed and the flag cleared (uploadFile then waits 3000 ms); when it
\* rejected, the function throws there.
TransferEnd(ok) ==
    /\ ~Microtask
    /\ tpc.at = "xmodem"
    /\ IF ok
       THEN /\ readers' = Without(readers, XModemReader(xfers))
            /\ xmodemMode' = FALSE
            /\ tpc' = IF tpc.dir = "uploadFile" THEN [tpc EXCEPT !.at = "wait"]
                      ELSE NoTransfer
       ELSE /\ tpc' = NoTransfer
            /\ UNCHANGED <<readers, xmodemMode>>
    /\ ev' = [Ev(tpc.dir, <<>>, <<>>) EXCEPT
                 !.result = IF ~ok THEN "rejected"
                            ELSE IF tpc.dir = "downloadFile" THEN "resolved"
                            ELSE "none"]
    /\ UNCHANGED <<isOpen, nativeListeners, status, currentVersion,
                   statusListeners, stats, queueVars, lineVars, installVars, nextId, cpc,
                   reads, ppc, pingCount, conns, xfers, seen, delivered>>

\* the 3000 ms of uploadFile are over: it returns
UploadReturn ==
    /\ ~Microtask
    /\ tpc.at = "wait"
    /\ tpc' = NoTransfer
    /\ ev' = [Ev(tpc.dir, <<>>, <<>>) EXCEPT !.result = "resolved"]
    /\ UNCHANGED <<sessionVars, queueVars, lineVars, installVars, xmodemMode, nextId, cpc,
                   reads, ppc, pingCount, conns, xfers, seen, delivered>>

\* ----------------------------------------------------- the Line Buffer alone

\* onData is called with a chunk; the bytes fed and the lines taken out of
\* the buffer are kept
Feed(data) ==
    /\ Len(input) + Len(data) <= MaxInput
    /\ LET s == onData(Session, data) IN
       /\ Put(s)
       /\ emitted' = emitted \o s.lines
    /\ input' = input \o data
    /\ ev' = Ev("onData", <<>>, <<>>)
    /\ UNCHANGED <<sessionVars, procVars, installVars, xmodemMode, nextId,
                   delivered>>

\* ------------------------------------------------- InstallService
\*
\* One action is one task of installRelease: its code up to the next await,
\* the catch block of a rejected await included. onState is a callback that
\* returns; getReleaseAsset returns.

NewInstall == [states |-> <<>>, result |-> "running", flashed |-> FALSE]

\* the running call after onState(state)
onState(run, state) == [run EXCEPT !.states = Append(run.states, state)]

\* a catch block: onState(ERROR), then the throw rejects the promise
Catch(run) == [onState(run, ERROR) EXCEPT !.result = "rejected"]

ThisInstall == installs[Len(installs)]

PutInstall(run) == installs' = [installs EXCEPT ![Len(installs)] = run]

notInstall == <<sessionVars, queueVars, procVars, lineVars, xmodemMode, nextId,
                ev, delivered>>

\* installRelease() is called: onState(DOWNLOADING), and the download starts
InstallCall ==
    /\ ipc = "idle"
    /\ Len(installs) < MaxInstalls
    /\ installs' = Append(installs, onState(NewInstall, DOWNLOADING))
    /\ ipc' = "download"
    /\ UNCHANGED notInstall

\* getReleaseAssetZip is over: onState(EXTRACTING) and the unzip starts, or
\* the first catch block
DownloadDone(ok) ==
    /\ ipc = "download"
    /\ IF ok
       THEN /\ PutInstall(onState(ThisInstall, EXTRACTING))
            /\ ipc' = "extract"
       ELSE /\ PutInstall(Catch(ThisInstall))
            /\ ipc' = "idle"
    /\ UNCHANGED notInstall

\* unzipAssetData is over (it rejects when the archive is corrupt or a file is
\* missing from it): the second catch block, or onState(FLASHING) and
\* convertToFlashFiles, which throws into the third catch block or is
\* followed by the start of flashDevice
ExtractDone(ok, converted) ==
    /\ ipc = "extract"
    /\ IF ~ok
       THEN /\ PutInstall(Catch(ThisInstall))
            /\ ipc' = "idle"
       ELSE IF converted
       THEN /\ PutInstall(onState(ThisInstall, FLASHING))
            /\ ipc' = "flash"
       ELSE /\ PutInstall(Catch(onState(ThisInstall, FLASHING)))
            /\ ipc' = "idle"
    /\ UNCHANGED notInstall

\* FlashDone calling onState(DONE) whether flashDevice resolved or not
FlashDoneAlways(ok) ==
    /\ ipc = "flash"
    /\ IF ok
       THEN PutInstall([onState(ThisInstall, DONE) EXCEPT !.result = "resolved",
                                                         !.flashed = TRUE])
       ELSE PutInstall(Catch(onState(ThisInstall, DONE)))
    /\ ipc' = "idle"
    /\ UNCHANGED notInstall

\* flashDevice is over: onState(DONE) and the promise resolves, or the third
\* catch block
FlashDone(ok) ==
    /\ ipc = "flash"
    /\ IF ok
       THEN PutInstall([onState(ThisInstall, DONE) EXCEPT !.result = "resolved",
                                                         !.flashed = TRUE])
       ELSE PutInstall(Catch(ThisInstall))
    /\ ipc' = "idle"
    /\ UNCHANGED notInstall

\* ------------------------------------------------------------ specifications

\* the tasks of one connect() on a transport that does not fail
Connect ==
    \/ conns = 0 /\ ConnectCall
    \/ OpenDone(TRUE, TRUE)
    \/ \E response \in Responses : WelcomeRead(response)
    \/ WelcomeTimeout
    \/ \E gotLine \in BOOLEAN : SettleRead(gotLine, TRUE)
    \/ ClearDone(TRUE)
    \/ VersionDone("v3")
    \/ StatsReturn

\* the tasks of connect() on a transport whose open() and write() may fail
ConnectOrFail ==
    \/ ConnectCall
    \/ \E opened, written \in BOOLEAN : OpenDone(opened, written)
    \/ \E response \in Responses : WelcomeRead(response)
    \/ WelcomeTimeout
    \/ \E gotLine, written \in BOOLEAN : SettleRead(gotLine, written)
    \/ \E written \in BOOLEAN : ClearDone(written)
    \/ \E versionResponse \in {"", "v3"} : VersionDone(versionResponse)
    \/ StatsReturn

\* the command queue: after one connect(), callers send commands, the device
\* answers, timers fire
Next ==
    \/ Connect
    \/ \E kind \in {"PingCommand", "GetStatsCommand"}, timeoutMs \in {0, 1000} :
           Send(kind, timeoutMs)
    \/ \E id \in CmdIds : TimerFire(id)
    \/ \E data \in ChunksOf(Bytes, MaxChunk) : Deliver(data)

Spec == Init /\ [][Next]_vars

\* the session: connect and disconnect, the DISCONNECT event, listeners
NextSession ==
    \/ ConnectOrFail
    \/ \E notify \in BOOLEAN : Disconnect(notify)
    \/ DisconnectEvent
    \/ \E listener \in Listeners : AddListener(listener)
    \/ \E listener \in Listeners : RemoveListener(listener)
    \/ \E id \in CmdIds : TimerFire(id)
    \/ \E data \in {<<LF>>, Terminator \o <<LF>>} : Deliver(data)

SpecSession == Init /\ [][NextSession]_vars

\* ping() and _detectController() after one connect()
NextDetect ==
    \/ Connect
    \/ \E id \in CmdIds : TimerFire(id)
    \/ \E data \in {<<LF>>, Terminator \o <<LF>>} : Deliver(data)
    \/ PingCall
    \/ PingReturn
    \/ DetectCall
    \/ DetectReturn

SpecDetect == Init /\ [][NextDetect]_vars

\* the same, with the event loop running what is due: the 1000 ms timer of a
\* pending ping fires, and the continuation of a settled ping runs
SpecDetectFair ==
    /\ SpecDetect
    /\ WF_vars(TimerFire(PingId))
    /\ WF_vars(DetectReturn)

\* transfers after one connect(), with callers that send commands
NextTransfer ==
    \/ Connect
    \/ \E kind \in {"PingCommand", "GetStatsCommand"}, timeoutMs \in {0, 1000} :
           nextId <= MaxTransferCmds /\ Send(kind, timeoutMs)
    \/ \E id \in CmdIds : TimerFire(id)
    \/ \E data \in {<<LF>>, Terminator, Terminator \o <<LF>>} : Deliver(data)
    \/ \E dir \in {"downloadFile", "uploadFile"} : TransferCall(dir)
    \/ TransferRequest
    \/ TransferStart
    \/ TransferWrite
    \/ \E ok \in BOOLEAN : TransferEnd(ok)
    \/ UploadReturn

SpecTransfer == Init /\ [][NextTransfer]_vars

\* line routing: after one connect(), callers send commands, timers fire, and
\* every chunk from the device is one whole line
NextRoute ==
    \/ Connect
    \/ \E kind \in {"PingCommand", "GetStatsCommand"}, timeoutMs \in {0, 1000} :
           Send(kind, timeoutMs)
    \/ \E id \in CmdIds : TimerFire(id)
    \/ \E data \in {<<LF>>, Terminator \o <<LF>>} : Deliver(data)

SpecRoute == Init /\ [][NextRoute]_vars

\* disconnect and reconnect with commands pending: callers send commands,
\* listeners are added, the device sends empty lines
NextDisconnect ==
    \/ ConnectCall
    \/ Connect
    \/ \E timeoutMs \in {0, 1000} :
           nextId <= MaxTransferCmds /\ Send("GetStatsCommand", timeoutMs)
    \/ \E id \in CmdIds : TimerFire(id)
    \/ Deliver(<<LF>>)
    \/ \E notify \in BOOLEAN : Disconnect(notify)
    \/ \E listener \in Listeners : AddListener(listener)

SpecDisconnect == Init /\ [][NextDisconnect]_vars

\* installRelease, called again when the call before it is over
NextInstall ==
    \/ InstallCall
    \/ \E ok \in BOOLEAN : DownloadDone(ok)
    \/ \E ok, converted \in BOOLEAN : ExtractDone(ok, converted)
    \/ \E ok \in BOOLEAN : FlashDone(ok)

SpecInstall == Init /\ [][NextInstall]_vars

\* the Line Buffer alone: chunks of any bytes
NextLines == \E data \in ChunksOf(WideBytes, MaxChunk) : Feed(data)

SpecLines == Init /\ [][NextLines]_vars

\* ------------------------------------------------------------------ claims

\* the place of a command in the order of the send() calls: in Spec the
\* GetStatsCommand of connect() is sent before every command of a caller
SendOrder(id) == IF id = StatsId THEN 0 ELSE id

Increasing(q) ==
    \A i, j \in 1..Len(q) : i < j => SendOrder(q[i]) < SendOrder(q[j])

Sent == {id \in CmdIds : cmd[id].state # "NEW"}

NoTimerFired == \A id \in CmdIds : cmd[id].timer # "fired"

\* C1: the commands resolve in the order they were sent, and only the head of
\* the queue receives lines. No command behind the head has received a line;
\* the queue is in send order; the promises resolved so far resolved in send
\* order and belong to commands that are DONE; and as long as no timer has
\* fired (so with timeoutMs = 0 throughout), the commands resolved, followed
\* by the queue, are exactly the commands sent, in send order.
HeadOfQueue ==
    /\ \A i \in 2..Len(commands) : ~cmd[commands[i]].got
    /\ Increasing(commands)
    /\ Increasing(resolved)
    /\ \A id \in Range(resolved) :
           /\ cmd[id].state = "DONE"
           /\ cmd[id].promise = "resolved"
           /\ id \notin Range(commands)
    /\ NoTimerFired =>
           /\ Increasing(resolved \o commands)
           /\ Range(resolved \o commands) = Sent

\* C1, its case: two commands sent with timeoutMs = 0, the first one a
\* GetStatsCommand that took more than one line, have resolved in send order
HeadOfQueueReached ==
    /\ resolved = <<1, 2>>
    /\ cmd[1].timeoutMs = 0 /\ cmd[2].timeoutMs = 0
    /\ cmd[1].kind = "GetStatsCommand"
    /\ NoTimerFired

\* the queue q without its i-th command
Removed(q, i) == SubSeq(q, 1, i - 1) \o SubSeq(q, i + 1, Len(q))

\* C2: when the timer of a command fires, the command is in the queue (it has
\* not completed), its promise is rejected, and the queue is afterwards the one
\* before without this command, the others in their order; a command sent with
\* timeoutMs = 0 has no timer, is never rejected, and leaves the queue only
\* when it is DONE.
TimeoutRemoves ==
    [][\A id \in CmdIds :
          /\ (cmd[id].timer = "armed" /\ cmd'[id].timer = "fired") =>
                 /\ cmd[id].timeoutMs > 0
                 /\ cmd'[id].promise = "rejected"
                 /\ \E i \in 1..Len(commands) :
                        /\ commands[i] = id
                        /\ commands' = Removed(commands, i)
                 /\ id \notin Range(commands')
          /\ (cmd'[id].state # "NEW" /\ cmd'[id].timeoutMs = 0) =>
                 /\ cmd'[id].timer = "none"
                 /\ cmd'[id].promise # "rejected"
          /\ (cmd[id].timeoutMs = 0 /\ id \in Range(commands)
                                    /\ id \notin Range(commands')) =>
                 cmd'[id].state = "DONE"]_vars

\* C2, its case: the timer of command 1 has just fired while the command was
\* between the GetStatsCommand of connect() and command 2, which both stay
TimeoutRemovesReached ==
    /\ ev.op = "timer"
    /\ cmd[1].promise = "rejected"
    /\ commands = <<StatsId, 2>>

\* C6: a chunk of complete lines that onData gets with the flag clear, the
\* queue empty and the buffer empty changes neither the queue, the buffer, the
\* status, the flag nor any command
ChatterDiscarded ==
    [][(ev'.op = "deliver" /\ ev'.chatter) =>
           UNCHANGED <<commands, buffer, status, xmodemMode, cmd, resolved>>]_vars

\* C6, its case: such a chunk was delivered
ChatterDiscardedReached ==
    /\ ev.op = "deliver" /\ ev.chatter
    /\ commands = <<>> /\ buffer = <<>>

\* C8: the promise of a command is settled once, by the event that comes
\* first. Resolve and reject were called at most once together; a resolved
\* command has no armed timer left (so no timer rejects it or touches the
\* queue later); a rejected command is out of the queue, not DONE, and
\* nothing about it changes any more: it takes no line and never resolves.
SettledOnce ==
    [][\A id \in UserIds \cup {StatsId} :
          /\ cmd'[id].settles <= 1
          /\ cmd'[id].promise = "resolved" =>
                 /\ cmd'[id].timer \in {"none", "cleared"}
                 /\ cmd'[id].state = "DONE"
          /\ cmd'[id].promise = "rejected" =>
                 /\ cmd'[id].timer = "fired"
                 /\ cmd'[id].state = "PENDING"
                 /\ id \notin Range(commands')
                 /\ id \notin Range(resolved')
          /\ cmd[id].promise = "rejected" => cmd'[id] = cmd[id]]_vars

\* C8, its case: command 1, sent with a timeout, completed before its timer
\* fired; the timer of command 2 fired first; a chunk came after that
SettledOnceReached ==
    /\ ev.op = "deliver"
    /\ cmd[1].promise = "resolved" /\ cmd[1].timer = "cleared"
    /\ cmd[2].promise = "rejected"

\* C3: a chunk that the transport delivers while xmodemMode is true changes
\* neither the buffer nor the queue, and no command takes a line from it
TransferOwnsBytes ==
    [][(ev'.op = "deliver" /\ xmodemMode) =>
           UNCHANGED <<buffer, commands, cmd, resolved>>]_vars

\* C3, its case: a chunk was delivered to onData while the flag was set and a
\* command was pending
TransferOwnsBytesReached ==
    /\ ev.op = "deliver"
    /\ xmodemMode
    /\ OnDataReader \in Range(readers)
    /\ commands # <<>>

\* C9: while a transfer runs with the flag set, nothing that send() writes
\* reaches the transport
TransportExclusive ==
    (xmodemMode /\ tpc.at # "idle") => \A i \in 1..Len(ev.wrote) : ev.wrote[i].by # "send"

\* how often listener l is called with status st by the task of this step
Calls(l, st) == Cardinality({i \in 1..Len(ev'.calls) : ev'.calls[i] = <<l, st>>})

\* C4: the DISCONNECT event on a session whose status is CONNECTED makes the
\* status CONNECTION_LOST and calls every registered listener once with
\* CONNECTION_LOST
ConnectionLost ==
    [][(ev'.op = "DISCONNECT" /\ status = CONNECTED) =>
           /\ status' = CONNECTION_LOST
           /\ \A l \in Range(statusListeners) : Calls(l, CONNECTION_LOST) = 1]_vars

\* C5: connect() does not throw once the 15 s went by without a welcome
\* string, and when it returns after that the status is CONNECTED, onData is
\* a reader of the transport and the temporary reader is not, the version is
\* the one before the call (unset when it was unset), and "$I" was not written
LenientHandshake ==
    /\ seen.welcome = "no" => seen.result # "threw"
    /\ (ev.op = "connect" /\ seen.result = "returned" /\ seen.welcome = "no") =>
           /\ cpc = "idle"
           /\ status = CONNECTED
           /\ OnDataReader \in Range(readers)
           /\ TempReader(conns) \notin Range(readers)
           /\ currentVersion = seen.ver0
           /\ seen.ver0 = "unset" => currentVersion = "unset"
           /\ ~seen.wroteI

\* C5, its case: a first connect() has just returned without a welcome string
LenientHandshakeReached ==
    /\ ev.op = "connect" /\ seen.result = "returned" /\ seen.welcome = "no"
    /\ conns = 1
    /\ currentVersion = "unset"

\* C10: a task that changes the status calls every registered listener with
\* the new status
StatusNotified ==
    [][status' # status =>
           \A l \in Range(statusListeners) : <<l, status'>> \in Range(ev'.calls)]_vars

\* the lines, each followed by a line feed
RECURSIVE Joined(_)
Joined(lines) ==
    IF lines = <<>> THEN <<>>
    ELSE Head(lines) \o <<LF>> \o Joined(Tail(lines))

\* C7: the lines emitted, each followed by a line feed, and then the buffer
\* are the text of the bytes fed without its carriage returns; the buffer
\* holds no line feed
LineBufferRoundTrip ==
    /\ Joined(emitted) \o buffer = StripCR(toString(input))
    /\ LF \notin Range(buffer)

\* the same for bytes that are all ASCII
LineBufferRoundTripAscii ==
    (\A i \in 1..Len(input) : input[i] < 128) => LineBufferRoundTrip

\* C11: a connect() called while the transport is open writes nothing, adds
\* no command to the queue, registers no reader and no DISCONNECT listener,
\* and leaves the status and the version as they are
ConnectWhileOpen ==
    [][(ev'.op = "connect" /\ cpc = "idle" /\ isOpen) =>
           /\ ev'.wrote = <<>>
           /\ UNCHANGED <<commands, readers, nativeListeners, status,
                          currentVersion>>]_vars

\* where connect() stands while _initializeController runs
Handshake == {"welcome", "settle1", "clear", "version", "settle2"}

\* C12: the status is CONNECTING while the handshake of connect() runs, and no
\* step takes the status from DISCONNECTED to CONNECTED
ThroughConnecting ==
    [][/\ cpc' \in Handshake => status' = CONNECTING
       /\ ~(status = DISCONNECTED /\ status' = CONNECTED)]_vars

\* how often reader r is registered
Registered(r) == Cardinality({i \in 1..Len(readers) : readers[i] = r})

\* C19: when a connect() has returned, onData is registered once as a reader
\* of the transport, no temporary reader of a handshake is, and the status is
\* CONNECTED
ReaderAttached ==
    (ev.op = "connect" /\ seen.result = "returned") =>
        /\ Registered(OnDataReader) = 1
        /\ \A n \in 1..conns : TempReader(n) \notin Range(readers)
        /\ status = CONNECTED

\* C13: ping() sends one PingCommand with a timeout of 1000 ms and nothing
\* else until it returns; when the command completes ping() resolves and the
\* status is CONNECTED; when it times out ping() rejects, the status is the
\* one before the call (no step of the call changes it), and the PingCommand
\* has left the queue
PingOutcome ==
    [][/\ (ppc = "idle" /\ ppc' = "ping") =>
              /\ commands' = Append(commands, PingId)
              /\ cmd'[PingId].kind = "PingCommand"
              /\ cmd'[PingId].timeoutMs = 1000
              /\ ev'.wrote = <<W("send", "PingCommand")>>
       /\ (ppc = "ping" /\ ppc' = "ping") =>
              /\ status' = status
              /\ ev'.wrote = <<>>
       /\ (ppc = "ping" /\ ppc' = "idle") =>
              /\ ev'.wrote = <<>>
              /\ ev'.result = cmd[PingId].promise
              /\ \/ /\ ev'.result = "resolved"
                    /\ cmd[PingId].state = "DONE"
                    /\ status' = CONNECTED
                 \/ /\ ev'.result = "rejected"
                    /\ cmd[PingId].timer = "fired"
                    /\ status' = status
                    /\ PingId \notin Range(commands')]_vars

\* C13, its case: a ping() called with the status UNKNOWN_DEVICE has just
\* rejected after its timeout
PingOutcomeReached ==
    /\ ev.op = "ping" /\ ev.result = "rejected"
    /\ status = UNKNOWN_DEVICE
    /\ ppc = "idle"

\* C14: _detectController() pings at most MAX_PING_COUNT times, counting each
\* ping; at the first ping that resolves it resolves, sending no further ping;
\* it rejects only after the MAX_PING_COUNT-th ping failed, and the status
\* becomes UNKNOWN_DEVICE there and nowhere else; and every call returns
DetectBounded ==
    /\ [][/\ ppc' = "detect" => pingCount' \in 1..MAX_PING_COUNT
          /\ (ev'.op = "_detectController" /\ ev'.wrote # <<>>) =>
                 /\ ev'.wrote = <<W("send", "PingCommand")>>
                 /\ pingCount' = IF ppc = "idle" THEN 1 ELSE pingCount + 1
                 /\ ppc = "detect" => cmd[PingId].promise = "rejected"
          /\ (ppc = "detect" /\ cmd[PingId].promise = "resolved") =>
                 /\ ppc' = "idle"
                 /\ ev'.result = "resolved"
                 /\ ev'.wrote = <<>>
                 /\ status' = CONNECTED
          /\ (ppc = "detect" /\ ppc' = "idle"
                             /\ cmd[PingId].promise # "resolved") =>
                 /\ pingCount = MAX_PING_COUNT
                 /\ cmd[PingId].promise = "rejected"
                 /\ ev'.result = "rejected"
                 /\ status' = UNKNOWN_DEVICE
          /\ (status # UNKNOWN_DEVICE /\ status' = UNKNOWN_DEVICE) =>
                 /\ pingCount = MAX_PING_COUNT
                 /\ cmd[PingId].promise = "rejected"]_vars
    /\ (ppc = "detect") ~> (ppc = "idle")

\* C14, its case: _detectController() has just rejected after MAX_PING_COUNT
\* failed pings
DetectBoundedReached ==
    /\ ev.op = "_detectController" /\ ev.result = "rejected"
    /\ pingCount = MAX_PING_COUNT
    /\ status = UNKNOWN_DEVICE

\* the readers that XModemSocketAdapters have registered
XModemReaders == {readers[i] : i \in {j \in 1..Len(readers) :
                                         readers[j].type = "XModemSocketAdapter"}}

\* C15: a chunk that the transport delivers while xmodemMode is true goes to
\* the reader of an XModemSocketAdapter
NoBytesLost ==
    [][(ev'.op = "deliver" /\ xmodemMode) => XModemReaders # {}]_vars

\* C18: when downloadFile or uploadFile has finished, resolved or rejected,
\* xmodemMode is false and no reader of an XModemSocketAdapter is registered
TransferReleases ==
    (ev.op \in {"downloadFile", "uploadFile"} /\ ev.result # "none") =>
        /\ ~xmodemMode
        /\ XModemReaders = {}

\* how often listener l is in statusListeners
Registrations(l) ==
    Cardinality({i \in 1..Len(statusListeners) : statusListeners[i] = l})

RoutedByPosition ==
    [][(ev'.op = "deliver" /\ OnDataReader \in Range(readers) /\ ~xmodemMode) =>
           IF commands # <<>>
           THEN /\ cmd'[commands[1]].got
                /\ \A id \in CmdIds \ {commands[1]} : cmd'[id] = cmd[id]
                /\ commands' \in {commands, Tail(commands)}
           ELSE UNCHANGED queueVars]_vars

\* C17, its case: command 1 was the head and timed out without a line; the
\* line that came next was taken by command 2
RoutedByPositionReached ==
    /\ ev.op = "deliver"
    /\ cmd[StatsId].state = "NEW"
    /\ cmd[1].timer = "fired" /\ ~cmd[1].got
    /\ cmd[2].got

\* the states of a run that goes through
AllStates == <<DOWNLOADING, EXTRACTING, FLASHING, DONE>>

====
